---- MODULE Spec2Model ----
(***************************************************************************)
(* A model of nmc_met_graphics/magics/util.py: the import guard of the     *)
(* module, the stride estimator get_skip_vector, and the four adapters     *)
(* that reshape gridded data and forward it to magics.minput.              *)
(*                                                                         *)
(* Python values are modelled as follows.                                  *)
(*   float       a record [kind, val]: kind "num" (val an integer), "nan"  *)
(*               or "inf" (val the sign)                                   *)
(*   ndarray     a record [shape, data]: data is the row-major flattening  *)
(*   None        the record None                                           *)
(*   dict        a heap object: its identity is its index in heap, its     *)
(*               contents a record of its keys (heap[id])                  *)
(*   exceptions  a returned record [kind |-> "raise", exc |-> name]        *)
(***************************************************************************)
EXTENDS Integers, Sequences, FiniteSets, TLC

VARIABLES pc, stdout, exitStatus, heap, calls, args, ret

vars == <<pc, stdout, exitStatus, heap, calls, args, ret>>

(***************************************************************************)
(* Bounds of the model.                                                    *)
(***************************************************************************)
MaxNLon == 121
MaxNLat == 61
MaxRows == 4
MaxCols == 4
MaxBad == 1
MaxSkip == 2
MaxCalls == 3

(***************************************************************************)
(* Python values.                                                          *)
(***************************************************************************)
None == [py |-> "None"]

Tuple(s) == [py |-> "tuple", v |-> s]

Num(n) == [kind |-> "num", val |-> n]

NaN == [kind |-> "nan", val |-> 0]

Inf == [kind |-> "inf", val |-> 1]

isnan(x) == x.kind = "nan"

Raise(e) == [kind |-> "raise", exc |-> e]

ReturnNone == [kind |-> "return", val |-> None]

Return(v) == [kind |-> "return", val |-> v]

NoRet == [kind |-> "pending"]

PyInt(n) == [py |-> "int", v |-> n]

RECURSIVE Prod(_)
Prod(s) == IF s = <<>> THEN 1 ELSE Head(s) * Prod(Tail(s))

Max2(a, b) == IF a >= b THEN a ELSE b

(***************************************************************************)
(* get_skip_vector (util.py 22-34)                                         *)
(***************************************************************************)
LonPerSkip == 60
LatPerSkip == 30

\* the quotient rounded down, where the code rounds up
CeilDivFloor(n, d) == n \div d

\* math.ceil(n / d) for a length n >= 0 and a positive whole divisor d
CeilDiv(n, d) == IF n % d = 0 THEN n \div d ELSE (n \div d) + 1

\* x[(x >= lo) & (x <= hi)]: boolean-mask selection, order kept
InRange(x, lo, hi) == SelectSeq(x, LAMBDA e : e >= lo /\ e <= hi)

get_skip_vector(lon, lat, map_region) ==
    LET lon1 == IF map_region # None
                THEN InRange(lon, map_region.v[1], map_region.v[2])
                ELSE lon
        lat1 == IF map_region # None
                THEN InRange(lat, map_region.v[3], map_region.v[4])
                ELSE lat
    IN  Max2(CeilDiv(Len(lon1), LonPerSkip), CeilDiv(Len(lat1), LatPerSkip))

(***************************************************************************)
(* The heap of metadata mappings.  Object 1 is a mapping the caller owns;  *)
(* object 2 is the mapping the def line of minput_xarray_vector builds     *)
(* once, when the module body runs (util.py 159-160); later objects are    *)
(* the mappings the adapters build.                                        *)
(***************************************************************************)
CallerDict == [units |-> "K", long_name |-> "2 metre temperature"]

XVDefault == [units |-> "m/s", long_name |-> "Wind field"]

CallerId == 1
XVDefaultId == 2

HeapBeforeLoad == <<CallerDict>>

HeapAfterLoad == <<CallerDict, XVDefault>>

(***************************************************************************)
(* The stride estimator as an operation: the staged call is applied.       *)
(***************************************************************************)
Ascending(start, n) == [i \in 1..n |-> start + (i - 1)]

Descending(start, n) == [i \in 1..n |-> start - (i - 1)]

SkipRegions ==
    {None} \cup
    {Tuple(<<a[1], a[2], b[1], b[2]>>) :
        a \in {<<0, 59>>, <<0, 60>>, <<300, 400>>},
        b \in {<<0, 29>>, <<-90, 90>>}}

InitSkip ==
    /\ pc = "staged"
    /\ stdout = <<>>
    /\ exitStatus = None
    /\ heap = HeapAfterLoad
    /\ calls = <<>>
    /\ \E n \in 0..MaxNLon, m \in 0..MaxNLat, r \in SkipRegions :
          args = [fn |-> "get_skip_vector", lon |-> Ascending(0, n),
                  lat |-> Descending(30, m), map_region |-> r]
    /\ ret = NoRet

CallSkip ==
    /\ pc = "staged"
    /\ args.fn = "get_skip_vector"
    /\ ret' = Return(PyInt(get_skip_vector(args.lon, args.lat, args.map_region)))
    /\ pc' = "returned"
    /\ UNCHANGED <<stdout, exitStatus, heap, calls, args>>

NextSkip == CallSkip

SpecSkip == InitSkip /\ [][NextSkip]_vars

\* the number of entries of x the region keeps (all of them without a region)
Counted(x, r, k) ==
    IF r = None THEN Len(x)
    ELSE Cardinality({i \in 1..Len(x) : r.v[k] <= x[i] /\ x[i] <= r.v[k + 1]})

\* C1: get_skip_vector returns max(ceil(n_lon/60), ceil(n_lat/30)) with n_lon and
\* n_lat the numbers of lon and lat values inside the region, bounds inclusive (the
\* full lengths without a region): the least whole s with 60 s >= n_lon and
\* 30 s >= n_lat, which is 0 exactly when both counts are 0 and at least 1 otherwise.
C1_SkipIsMaxCeil ==
    (pc = "returned" /\ args.fn = "get_skip_vector") =>
        LET nlon == Counted(args.lon, args.map_region, 1)
            nlat == Counted(args.lat, args.map_region, 3)
            s == ret.val.v
        IN  /\ ret.kind = "return"
            /\ s \in Nat
            /\ 60 * s >= nlon /\ 30 * s >= nlat
            /\ s > 0 => (60 * (s - 1) < nlon \/ 30 * (s - 1) < nlat)
            /\ (s = 0) <=> (nlon = 0 /\ nlat = 0)
            /\ (s # 0) => s >= 1

\* C1 witness: a region cuts 121 longitudes down to 61 and the stride is 2
C1_Witness ==
    /\ pc = "returned" /\ args.fn = "get_skip_vector"
    /\ args.map_region # None
    /\ Len(args.lon) = 121
    /\ Counted(args.lon, args.map_region, 1) = 61
    /\ Counted(args.lat, args.map_region, 3) = 30
    /\ ret.val = PyInt(2)

(***************************************************************************)
(* numpy operations the adapters use.                                      *)
(***************************************************************************)
Array(shape, data) == [shape |-> shape, data |-> data]

Vector(data) == Array(<<Len(data)>>, data)

size(a) == Len(a.data)

\* a.astype(np.float64): the values modelled are float64 values already, which
\* the cast keeps exactly (NaN and inf included); shape kept
astype_float64(a) == a

\* np.squeeze(a): every axis of length 1 is removed, whichever it is
squeeze(a) == Array(SelectSeq(a.shape, LAMBDA d : d # 1), a.data)

\* np.meshgrid(lon, lat): two [size(lat), size(lon)] arrays; lon varies along
\* the columns and lat along the rows (a 0-d input counts as one value)
meshgrid_lon(lon, lat) ==
    Array(<<size(lat), size(lon)>>,
          [k \in 1..(size(lat) * size(lon)) |-> lon.data[((k - 1) % size(lon)) + 1]])

meshgrid_lat(lon, lat) ==
    Array(<<size(lat), size(lon)>>,
          [k \in 1..(size(lat) * size(lon)) |-> lat.data[((k - 1) \div size(lon)) + 1]])

\* the number of indices 0, skip, 2 skip, ... below n
StridedLen(n, skip) == CeilDiv(n, skip)

\* a[::skip, :]: the stride taken along the rows only
StrideRowsOnly(a, skip) ==
    LET n == a.shape[1]
        m == a.shape[2]
        n2 == StridedLen(n, skip)
    IN  Array(<<n2, m>>,
              [k \in 1..(n2 * m) |->
                  a.data[(((k - 1) \div m) * skip) * m + ((k - 1) % m) + 1]])

\* a[::skip, ::skip] of a 2-D array (fewer axes: IndexError, see the callers)
Stride2(a, skip) ==
    LET n == a.shape[1]
        m == a.shape[2]
        n2 == StridedLen(n, skip)
        m2 == StridedLen(m, skip)
    IN  Array(<<n2, m2>>,
              [k \in 1..(n2 * m2) |->
                  a.data[(((k - 1) \div m2) * skip) * m + (((k - 1) % m2) * skip) + 1]])

\* a.flatten(): row-major, which is the order data is kept in
flatten(a) == a.data

\* x[index] for a boolean mask: the entries whose mask is true, order kept
RECURSIVE BoolIndex(_, _)
BoolIndex(x, index) ==
    IF x = <<>> THEN <<>>
    ELSE (IF Head(index) THEN <<Head(x)>> ELSE <<>>) \o BoolIndex(Tail(x), Tail(index))

(***************************************************************************)
(* magics.minput: the renderer's input constructor.  A call is logged in   *)
(* calls with the adapter that made it, the keyword arguments, and the     *)
(* contents the metadata mapping had when it was handed over; the value    *)
(* returned is an opaque handle.                                           *)
(***************************************************************************)
Omitted == [py |-> "omitted"]

Ref(id) == [py |-> "ref", id |-> id]

Handle(n) == [py |-> "minput", n |-> n]

NoCall == [py |-> "nocall"]

Effect(r, call, h) == [ret |-> r, call |-> call, heap |-> h]

Deref(h, m) == IF m = None THEN None ELSE h[m.id]

Forward(fn, kwargs, h, n) ==
    Effect(Return(Handle(n + 1)),
           [fn |-> fn, kwargs |-> kwargs,
            md_contents |-> Deref(h, kwargs.input_metadata)],
           h)

(***************************************************************************)
(* minput_2d_vector (util.py 64-113).  h is the heap at the call, n the    *)
(* number of minput calls made so far.                                     *)
(***************************************************************************)
WindDefault == [units |-> "m/s", long_name |-> "wind field"]

\* a mask that looks at u alone
NotNanMaskUOnly(u, v) == [k \in 1..Len(u) |-> ~isnan(u[k])]

\* (~np.isnan(uwind_field)) & (~np.isnan(vwind_field))
NotNanMask(u, v) == [k \in 1..Len(u) |-> (~isnan(u[k])) /\ (~isnan(v[k]))]

minput_2d_vector(udata, vdata, lon, lat, skip, metadata, h, n) ==
    LET lat1 == squeeze(astype_float64(lat))
        lon1 == squeeze(astype_float64(lon))
        uwind_field == squeeze(astype_float64(udata))
        vwind_field == squeeze(astype_float64(vdata))
        lon2 == meshgrid_lon(lon1, lat1)
        lat2 == meshgrid_lat(lon1, lat1)
    IN  IF Len(uwind_field.shape) < 2 \/ Len(vwind_field.shape) < 2
        THEN \* [::skip, ::skip] on fewer than two axes
             Effect(Raise("IndexError"), NoCall, h)
        ELSE
        LET u1 == flatten(Stride2(uwind_field, skip))
            v1 == flatten(Stride2(vwind_field, skip))
            lat3 == flatten(Stride2(lat2, skip))
            lon3 == flatten(Stride2(lon2, skip))
            index == NotNanMask(u1, v1)
            u2 == BoolIndex(u1, index)
            v2 == BoolIndex(v1, index)
        IN  IF Len(u2) = 0 THEN Effect(ReturnNone, NoCall, h)
            ELSE
            LET h2 == IF metadata = None THEN Append(h, WindDefault) ELSE h
                md == IF metadata = None THEN Ref(Len(h2)) ELSE metadata
            IN  Forward("minput_2d_vector",
                        [input_type |-> "geographical",
                         input_x_component_values |-> u2,
                         input_y_component_values |-> v2,
                         input_latitude_values |-> BoolIndex(lat3, index),
                         input_longitude_values |-> BoolIndex(lon3, index),
                         input_metadata |-> md],
                        h2, n)

\* the binding of an omitted keyword argument to the default of the def line
Bind(a, default) == IF a = Omitted THEN default ELSE a

\* an adapter's effect applied to the state
Apply(e) ==
    /\ ret' = e.ret
    /\ heap' = e.heap
    /\ calls' = IF e.call = NoCall THEN calls ELSE Append(calls, e.call)

(***************************************************************************)
(* The array-form vector adapter applied to staged grids.                  *)
(***************************************************************************)
Cells(nlat, nlon) == (1..nlat) \X (1..nlon)

CellKinds == {"ok", "unan", "vnan", "uinf", "nan"}

\* the u and v of a cell: finite values carry the cell's position
UVal(kind, i, j) ==
    CASE kind \in {"unan", "nan"} -> NaN
      [] kind = "uinf" -> Inf
      [] OTHER -> Num(100 + 10 * i + j)

VVal(kind, i, j) ==
    CASE kind \in {"vnan", "nan"} -> NaN
      [] OTHER -> Num(200 + 10 * i + j)

ScalarVal(kind, i, j) == IF kind = "ok" THEN Num(300 + 10 * i + j) ELSE NaN

\* the subsets of S of at most k elements
RECURSIVE SubsetsUpTo(_, _)
SubsetsUpTo(S, k) ==
    IF k = 0 THEN {{}}
    ELSE LET smaller == SubsetsUpTo(S, k - 1)
         IN  smaller \cup {T \cup {x} : T \in smaller, x \in S}

\* the kind of every cell: a base kind, and up to MaxBad cells that differ
KindMaps(nlat, nlon) ==
    UNION {UNION {{[c \in Cells(nlat, nlon) |-> IF c \in B THEN f[c] ELSE base] :
                      f \in [B -> CellKinds]} :
                  B \in SubsetsUpTo(Cells(nlat, nlon), MaxBad)} :
           base \in {"ok", "nan"}}

Grid(nlat, nlon, component, km) ==
    Array(<<nlat, nlon>>,
          [k \in 1..(nlat * nlon) |->
              LET i == ((k - 1) \div nlon) + 1
                  j == ((k - 1) % nlon) + 1
              IN  IF component = "u" THEN UVal(km[<<i, j>>], i, j)
                  ELSE IF component = "v" THEN VVal(km[<<i, j>>], i, j)
                  ELSE ScalarVal(km[<<i, j>>], i, j)])

LatVec(nlat) == Vector([i \in 1..nlat |-> 10 * i])

LonVec(nlon) == Vector([j \in 1..nlon |-> 100 + j])

InitVector ==
    /\ pc = "staged"
    /\ stdout = <<>>
    /\ exitStatus = None
    /\ heap = HeapAfterLoad
    /\ calls = <<>>
    /\ \E nlat \in 1..MaxRows, nlon \in 1..MaxCols, skip \in 1..MaxSkip :
          \E km \in KindMaps(nlat, nlon) :
              args = [fn |-> "minput_2d_vector",
                      udata |-> Grid(nlat, nlon, "u", km),
                      vdata |-> Grid(nlat, nlon, "v", km),
                      lon |-> LonVec(nlon), lat |-> LatVec(nlat),
                      skip |-> skip, metadata |-> Omitted]
    /\ ret = NoRet

CallVector ==
    /\ pc = "staged"
    /\ args.fn = "minput_2d_vector"
    /\ Apply(minput_2d_vector(args.udata, args.vdata, args.lon, args.lat, args.skip,
                              Bind(args.metadata, None), heap, Len(calls)))
    /\ pc' = "returned"
    /\ UNCHANGED <<stdout, exitStatus, args>>

NextVector == CallVector

SpecVector == InitVector /\ [][NextVector]_vars

(***************************************************************************)
(* Properties of the array-form vector adapter, stated on the staged       *)
(* grids themselves.                                                       *)
(***************************************************************************)
VNLat == args.udata.shape[1]

VNLon == args.udata.shape[2]

UAt(p) == args.udata.data[(p[1] - 1) * VNLon + p[2]]

VAt(p) == args.vdata.data[(p[1] - 1) * VNLon + p[2]]

\* the grid positions [::skip, ::skip] visits (rows and columns counted from 1)
StridedPositions ==
    {p \in Cells(VNLat, VNLon) : (p[1] - 1) % args.skip = 0 /\ (p[2] - 1) % args.skip = 0}

KeptNotNan == {p \in StridedPositions : ~isnan(UAt(p)) /\ ~isnan(VAt(p))}

KeptFinite == {p \in StridedPositions : UAt(p).kind = "num" /\ VAt(p).kind = "num"}

\* the place of p among the positions of K taken in row-major order
Rank(K, p) ==
    Cardinality({q \in K : q[1] < p[1] \/ (q[1] = p[1] /\ q[2] <= p[2])})

VectorForwarded == pc = "returned" /\ args.fn = "minput_2d_vector" /\ calls # <<>>

\* the forwarded lists hold exactly the positions of K, in row-major order
CoIndexed(K) ==
    LET kw == calls[1].kwargs
    IN  /\ Len(kw.input_x_component_values) = Cardinality(K)
        /\ Len(kw.input_y_component_values) = Cardinality(K)
        /\ Len(kw.input_latitude_values) = Cardinality(K)
        /\ Len(kw.input_longitude_values) = Cardinality(K)
        /\ \A p \in K :
              /\ kw.input_x_component_values[Rank(K, p)] = UAt(p)
              /\ kw.input_y_component_values[Rank(K, p)] = VAt(p)
              /\ kw.input_latitude_values[Rank(K, p)] = args.lat.data[p[1]]
              /\ kw.input_longitude_values[Rank(K, p)] = args.lon.data[p[2]]

\* C2 as claimed: the forwarded record has four lists of equal length, every entry
\* has a finite u and a finite v, the entries are co-indexed grid positions, and
\* every strided position whose u and v are both finite appears once, in row-major
\* order.
C2_ForwardedFiniteCoIndexed ==
    VectorForwarded =>
        LET kw == calls[1].kwargs
        IN  /\ \A k \in 1..Len(kw.input_x_component_values) :
                  /\ kw.input_x_component_values[k].kind = "num"
                  /\ kw.input_y_component_values[k].kind = "num"
            /\ CoIndexed(KeptFinite)

\* C2 as amended: the same with "not NaN" in place of "finite": an infinite
\* component is kept.
C2_ForwardedNotNanCoIndexed ==
    VectorForwarded =>
        LET kw == calls[1].kwargs
        IN  /\ \A k \in 1..Len(kw.input_x_component_values) :
                  /\ ~isnan(kw.input_x_component_values[k])
                  /\ ~isnan(kw.input_y_component_values[k])
            /\ CoIndexed(KeptNotNan)

\* C2 witness: a stride of 2 visits two positions; the one with a NaN is dropped
\* and the one with an infinite u is forwarded
C2_Witness ==
    /\ VectorForwarded
    /\ args.skip = 2
    /\ Cardinality(StridedPositions) = 2
    /\ calls[1].kwargs.input_x_component_values = <<Inf>>
    /\ calls[1].kwargs.input_latitude_values = <<30>>

\* the number of points the call forwarded
PointsForwarded ==
    IF calls = <<>> THEN 0 ELSE Len(calls[1].kwargs.input_x_component_values)

\* C3 as claimed: the number of points forwarded is at most nlat * nlon / skip^2.
C3_CountAtMostAreaOverSkipSquared ==
    (pc = "returned" /\ args.fn = "minput_2d_vector") =>
        PointsForwarded * args.skip * args.skip <= VNLat * VNLon

\* C3 as amended: the number of points forwarded is at most
\* ceil(nlat / skip) * ceil(nlon / skip), the number of strided positions.
C3_CountAtMostStridedPositions ==
    (pc = "returned" /\ args.fn = "minput_2d_vector") =>
        PointsForwarded <=
            Cardinality({r \in 0..(VNLat - 1) : r % args.skip = 0})
              * Cardinality({c \in 0..(VNLon - 1) : c % args.skip = 0})

\* C3 witness: every strided position is forwarded and they are more than
\* nlat * nlon / skip^2
C3_Witness ==
    /\ VectorForwarded
    /\ args.skip > 1
    /\ PointsForwarded = Cardinality(StridedPositions)
    /\ PointsForwarded * args.skip * args.skip > VNLat * VNLon

\* C4: minput_2d_vector returns None without calling minput exactly when no
\* strided position has both u and v valid, and in every other case calls minput
\* once and returns its result.  ("Valid" is read as "not NaN", the weakest
\* reading: the claim with "finite" fails wherever this one does.)
C4_NoneExactlyWhenNothingValid ==
    (pc = "returned" /\ args.fn = "minput_2d_vector") =>
        /\ (KeptNotNan = {}) <=> (ret = ReturnNone)
        /\ (KeptNotNan = {}) => calls = <<>>
        /\ (KeptNotNan # {}) => (Len(calls) = 1 /\ ret = Return(Handle(1)))

(***************************************************************************)
(* minput_2d (util.py 37-61)                                               *)
(***************************************************************************)
minput_2d(data, lon, lat, metadata, h, n) ==
    LET lat1 == squeeze(astype_float64(lat))
        lon1 == squeeze(astype_float64(lon))
        input_field_values == squeeze(astype_float64(data))
    IN  Forward("minput_2d",
                [input_type |-> "geographical",
                 input_field |-> input_field_values,
                 input_latitudes_list |-> lat1,
                 input_longitudes_list |-> lon1,
                 input_metadata |-> metadata],
                h, n)

\* a scalar grid of nlat x nlon values under lead extra axes of length 1
MaxLead == 2

LeadAxes(lead, a) == Array([k \in 1..lead |-> 1] \o a.shape, a.data)

InitScalar ==
    /\ pc = "staged"
    /\ stdout = <<>>
    /\ exitStatus = None
    /\ heap = HeapAfterLoad
    /\ calls = <<>>
    /\ \E nlat \in 1..MaxRows, nlon \in 1..MaxCols, lead \in 0..MaxLead :
          \E km \in {m \in KindMaps(nlat, nlon) :
                        \A c \in Cells(nlat, nlon) : m[c] \in {"ok", "nan"}} :
              args = [fn |-> "minput_2d",
                      data |-> LeadAxes(lead, Grid(nlat, nlon, "data", km)),
                      lon |-> LonVec(nlon), lat |-> LatVec(nlat),
                      metadata |-> Ref(CallerId)]
    /\ ret = NoRet

CallScalar ==
    /\ pc = "staged"
    /\ args.fn = "minput_2d"
    /\ Apply(minput_2d(args.data, args.lon, args.lat, args.metadata, heap, Len(calls)))
    /\ pc' = "returned"
    /\ UNCHANGED <<stdout, exitStatus, args>>

NextScalar == CallScalar

SpecScalar == InitScalar /\ [][NextScalar]_vars

\* C5: for a data grid of shape (len(lat), len(lon)), with or without extra
\* axes of length 1, the field minput_2d forwards has shape exactly
\* (len(lat), len(lon)), also when len(lat) = 1 or len(lon) = 1.
C5_FieldShapeIsLatByLon ==
    (pc = "returned" /\ args.fn = "minput_2d") =>
        /\ Len(calls) = 1
        /\ calls[1].kwargs.input_field.shape = <<Len(args.lat.data), Len(args.lon.data)>>

(***************************************************************************)
(* xarray datasets.  A dataset is [dims, coords, vars]: the dimension      *)
(* names in axis order, each dimension's coordinate values, and for every  *)
(* variable name its values (an array over all the dimensions) and attrs.  *)
(***************************************************************************)
Str(x) == [py |-> "str", v |-> x]

Dataset(dims, coords, vs) == [dims |-> dims, coords |-> coords, vars |-> vs]

SeqRange(q) == {q[k] : k \in 1..Len(q)}

AxisOf(ds, dim) == CHOOSE k \in 1..Len(ds.dims) : ds.dims[k] = dim

\* the array with axis k fixed at index idx (counted from 1) and dropped
Take(a, k, idx) ==
    LET sh == a.shape
        inner == Prod(SubSeq(sh, k + 1, Len(sh)))
        outer == Prod(SubSeq(sh, 1, k - 1))
    IN  Array(SubSeq(sh, 1, k - 1) \o SubSeq(sh, k + 1, Len(sh)),
              [j \in 1..(outer * inner) |->
                  a.data[((j - 1) \div inner) * sh[k] * inner
                           + (idx - 1) * inner + ((j - 1) % inner) + 1]])

\* ds.loc[{dim: d}]: the label d is looked up among dim's coordinate values
\* and the dimension is dropped from every variable
loc(ds, dim, d) ==
    LET k == AxisOf(ds, dim)
        idx == CHOOSE i \in 1..Len(ds.coords[dim]) :
                  /\ ds.coords[dim][i] = d
                  /\ \A i2 \in 1..(i - 1) : ds.coords[dim][i2] # d
    IN  Dataset(SubSeq(ds.dims, 1, k - 1) \o SubSeq(ds.dims, k + 1, Len(ds.dims)),
                ds.coords,
                [name \in DOMAIN ds.vars |->
                    [values |-> Take(ds.vars[name].values, k, idx),
                     attrs |-> ds.vars[name].attrs]])

\* for dim in data.dims: ... d = data[dim].values[0]; data = data.loc[{dim: d}]
\* (the names are those of the dataset the loop started with)
RECURSIVE CollapseNonSpatial(_, _)
CollapseNonSpatial(ds, names) ==
    IF names = <<>> THEN ds
    ELSE IF Head(names) \in {"lon", "lat"} THEN CollapseNonSpatial(ds, Tail(names))
    ELSE CollapseNonSpatial(loc(ds, Head(names), ds.coords[Head(names)][1]), Tail(names))

(***************************************************************************)
(* minput_xarray (util.py 116-156)                                         *)
(***************************************************************************)
minput_xarray(data, varname, metadata, h, n) ==
    LET data1 == CollapseNonSpatial(data, data.dims)
    IN  IF ~({"lat", "lon"} \subseteq DOMAIN data1.coords) \/ varname.v \notin DOMAIN data1.vars
        THEN Effect(Raise("KeyError"), NoCall, h)
        ELSE
        LET lat == Vector(data1.coords["lat"])
            lon == Vector(data1.coords["lon"])
            input_field_values == squeeze(astype_float64(data1.vars[varname.v].values))
            \* dict(data[varname].attrs): a new mapping with the attrs' contents
            h2 == IF metadata = None THEN Append(h, data1.vars[varname.v].attrs) ELSE h
            md == IF metadata = None THEN Ref(Len(h2)) ELSE metadata
        IN  Forward("minput_xarray",
                    [input_field |-> input_field_values,
                     input_latitudes_list |-> astype_float64(lat),
                     input_longitudes_list |-> astype_float64(lon),
                     input_metadata |-> md],
                    h2, n)

(***************************************************************************)
(* minput_xarray_vector (util.py 159-205)                                  *)
(***************************************************************************)
minput_xarray_vector(uwind, vwind, u_varname, v_varname, skip, metadata, h, n) ==
    IF \E dim \in SeqRange(uwind.dims) \ {"lon", "lat"} : dim \notin SeqRange(vwind.dims)
    THEN \* vwind[dim] for a dimension vwind does not have
         Effect(Raise("KeyError"), NoCall, h)
    ELSE
    LET uwind1 == CollapseNonSpatial(uwind, uwind.dims)
        vwind1 == CollapseNonSpatial(vwind, uwind.dims)
    IN  IF \/ ~({"lat", "lon"} \subseteq DOMAIN uwind1.coords)
           \/ "u_varname" \notin DOMAIN uwind1.vars
           \/ "v_varname" \notin DOMAIN vwind1.vars
        THEN Effect(Raise("KeyError"), NoCall, h)
        ELSE
        LET lat == astype_float64(Vector(uwind1.coords["lat"]))
            lon == astype_float64(Vector(uwind1.coords["lon"]))
            uwind_field == squeeze(astype_float64(uwind1.vars["u_varname"].values))
            vwind_field == squeeze(astype_float64(vwind1.vars["v_varname"].values))
            lon2 == meshgrid_lon(lon, lat)
            lat2 == meshgrid_lat(lon, lat)
        IN  IF Len(uwind_field.shape) < 2 \/ Len(vwind_field.shape) < 2
            THEN Effect(Raise("IndexError"), NoCall, h)
            ELSE Forward("minput_xarray_vector",
                         [input_type |-> "geographical",
                          input_x_component_values |-> flatten(Stride2(uwind_field, skip)),
                          input_y_component_values |-> flatten(Stride2(vwind_field, skip)),
                          input_latitude_values |-> flatten(Stride2(lat2, skip)),
                          input_longitude_values |-> flatten(Stride2(lon2, skip)),
                          input_metadata |-> metadata],
                         h, n)

(***************************************************************************)
(* The labeled-dataset vector adapter applied to staged datasets.          *)
(***************************************************************************)
MaxTime == 2

VarCode(name) ==
    CASE name = "data" -> 1
      [] name = "u" -> 2
      [] name = "v" -> 3
      [] name = "u_varname" -> 4
      [] name = "v_varname" -> 5

VarAttrs(name) == [units |-> "m/s", long_name |-> name]

\* a dataset over (time, lat, lon), or over (lat, lon) when ntime = 0; every
\* value names its dataset, variable, time and cell, but for one NaN (nan = 0: none)
MakeDataset(tag, names, ntime, nlat, nlon, nan) ==
    LET hasTime == ntime > 0
        nt == IF hasTime THEN ntime ELSE 1
    IN  Dataset(IF hasTime THEN <<"time", "lat", "lon">> ELSE <<"lat", "lon">>,
                IF hasTime
                THEN [time |-> [t \in 1..ntime |-> 6 * t],
                      lat |-> [i \in 1..nlat |-> 10 * i],
                      lon |-> [j \in 1..nlon |-> 100 + j]]
                ELSE [lat |-> [i \in 1..nlat |-> 10 * i],
                      lon |-> [j \in 1..nlon |-> 100 + j]],
                [name \in names |->
                    [values |->
                        Array(IF hasTime THEN <<ntime, nlat, nlon>> ELSE <<nlat, nlon>>,
                              [k \in 1..(nt * nlat * nlon) |->
                                  IF k = nan THEN NaN
                                  ELSE Num(10000 * tag + 1000 * VarCode(name) + k)]),
                     attrs |-> VarAttrs(name)]])

VarNameSets == {{"data"}, {"u", "v"}, {"data", "u_varname", "v_varname"}}

InitXV ==
    /\ pc = "staged"
    /\ stdout = <<>>
    /\ exitStatus = None
    /\ heap = HeapAfterLoad
    /\ calls = <<>>
    /\ \E names \in VarNameSets, ntime \in 0..MaxTime,
          nlat \in 1..MaxRows, nlon \in 1..MaxCols :
          \E nan \in 0..2, un \in {Omitted, Str("u")}, vn \in {Omitted, Str("v")},
             skip \in 1..MaxSkip :
              args = [fn |-> "minput_xarray_vector",
                      uwind |-> MakeDataset(1, names, ntime, nlat, nlon, nan),
                      vwind |-> MakeDataset(2, names, ntime, nlat, nlon, nan),
                      u_varname |-> un, v_varname |-> vn,
                      skip |-> skip, metadata |-> Omitted]
    /\ ret = NoRet

CallXV ==
    /\ pc = "staged"
    /\ args.fn = "minput_xarray_vector"
    /\ Apply(minput_xarray_vector(args.uwind, args.vwind,
                                  Bind(args.u_varname, Str("data")),
                                  Bind(args.v_varname, Str("data")),
                                  args.skip, Bind(args.metadata, Ref(XVDefaultId)),
                                  heap, Len(calls)))
    /\ pc' = "returned"
    /\ UNCHANGED <<stdout, exitStatus, args>>

NextXV == CallXV

SpecXV == InitXV /\ [][NextXV]_vars

(***************************************************************************)
(* Properties of the labeled-dataset vector adapter, stated on the staged  *)
(* datasets themselves.                                                    *)
(***************************************************************************)
XVReturned == pc = "returned" /\ args.fn = "minput_xarray_vector"

XVNLat == Len(args.uwind.coords["lat"])

XVNLon == Len(args.uwind.coords["lon"])

XVUName == IF args.u_varname = Omitted THEN "data" ELSE args.u_varname.v

XVVName == IF args.v_varname = Omitted THEN "data" ELSE args.v_varname.v

XVNamesExist == XVUName \in DOMAIN args.uwind.vars /\ XVVName \in DOMAIN args.vwind.vars

XVStrided ==
    {p \in Cells(XVNLat, XVNLon) : (p[1] - 1) % args.skip = 0 /\ (p[2] - 1) % args.skip = 0}

\* the value of variable name of ds at cell p, at the first coordinate of every
\* other axis (the leading block of the row-major values)
FirstSliceAt(ds, name, p) == ds.vars[name].values.data[(p[1] - 1) * XVNLon + p[2]]

\* C8: minput_xarray_vector reads u from the variable of the u dataset named by
\* u_varname and v from the variable of the v dataset named by v_varname: when the
\* named variables exist no KeyError is raised, and what is forwarded are their
\* values.
C8_ReadsNamedVariables ==
    (XVReturned /\ XVNamesExist) =>
        /\ ret # Raise("KeyError")
        /\ calls # <<>> =>
              \A p \in XVStrided :
                  /\ calls[1].kwargs.input_x_component_values[Rank(XVStrided, p)]
                       = FirstSliceAt(args.uwind, XVUName, p)
                  /\ calls[1].kwargs.input_y_component_values[Rank(XVStrided, p)]
                       = FirstSliceAt(args.vwind, XVVName, p)

\* C10: minput_xarray_vector never returns None and filters nothing: with the
\* other axes collapsed to their first coordinate it forwards exactly
\* ceil(nlat / skip) * ceil(nlon / skip) points, four lists of that length, a NaN
\* staying at its strided position.
C10_ForwardsEveryStridedPoint ==
    (XVReturned /\ XVNamesExist) =>
        /\ ret # ReturnNone
        /\ Len(calls) = 1
        /\ LET kw == calls[1].kwargs
               np == Cardinality(XVStrided)
           IN  /\ Len(kw.input_x_component_values) = np
               /\ Len(kw.input_y_component_values) = np
               /\ Len(kw.input_latitude_values) = np
               /\ Len(kw.input_longitude_values) = np
               /\ \A p \in XVStrided :
                     isnan(FirstSliceAt(args.uwind, XVUName, p))
                         => isnan(kw.input_x_component_values[Rank(XVStrided, p)])

(***************************************************************************)
(* The module from its import on: the import guard (util.py 14-19), then   *)
(* any calls of the five functions, with the mappings handed to the        *)
(* renderer open to change by whoever holds them.                          *)
(***************************************************************************)
GuidanceMessage ==
    "Magics not installed. Please refer to \n      https://anaconda.org/conda-forge/magics"

NoArgs == [fn |-> "none"]

Init ==
    /\ pc = "import"
    /\ stdout = <<>>
    /\ exitStatus = None
    /\ heap = HeapBeforeLoad
    /\ calls = <<>>
    /\ args = NoArgs
    /\ ret = NoRet

\* from Magics import macro as magics: found; the module body runs to its end,
\* the def lines build their defaults
ImportSucceeds ==
    /\ pc = "import"
    /\ pc' = "ready"
    /\ heap' = HeapAfterLoad
    /\ UNCHANGED <<stdout, exitStatus, calls, args, ret>>

\* the import raises ImportError, which the except clause catches
ImportFails ==
    /\ pc = "import"
    /\ pc' = "except"
    /\ UNCHANGED <<stdout, exitStatus, heap, calls, args, ret>>

PrintGuidance ==
    /\ pc = "except"
    /\ stdout' = Append(stdout, GuidanceMessage)
    /\ pc' = "printed"
    /\ UNCHANGED <<exitStatus, heap, calls, args, ret>>

\* a guard that does not exit: the module body goes on to its def lines
SysExitMissing ==
    /\ pc = "printed"
    /\ pc' = "ready"
    /\ heap' = HeapAfterLoad
    /\ UNCHANGED <<stdout, exitStatus, calls, args, ret>>

\* sys.exit(1)
SysExit ==
    /\ pc = "printed"
    /\ exitStatus' = PyInt(1)
    /\ pc' = "exited"
    /\ UNCHANGED <<stdout, heap, calls, args, ret>>

AllOk(nlat, nlon) == [c \in Cells(nlat, nlon) |-> "ok"]

MetadataArgs == {Omitted, None, Ref(CallerId)}

LifeSkipInputs ==
    {[fn |-> "get_skip_vector", lon |-> Ascending(0, 61), lat |-> Descending(30, 31),
      map_region |-> None]}

LifeScalarInputs ==
    {[fn |-> "minput_2d", data |-> Grid(2, 2, "data", AllOk(2, 2)),
      lon |-> LonVec(2), lat |-> LatVec(2), metadata |-> Ref(CallerId)]}

LifeVectorInputs ==
    {[fn |-> "minput_2d_vector",
      udata |-> Grid(2, 2, "u", AllOk(2, 2)), vdata |-> Grid(2, 2, "v", AllOk(2, 2)),
      lon |-> LonVec(2), lat |-> LatVec(2), skip |-> 1, metadata |-> m] :
        m \in MetadataArgs}

LifeXarrayInputs ==
    {[fn |-> "minput_xarray", data |-> MakeDataset(1, {"data"}, 1, 2, 2, 0),
      varname |-> Omitted, metadata |-> m] : m \in MetadataArgs}

LifeXVInputs ==
    {[fn |-> "minput_xarray_vector",
      uwind |-> MakeDataset(1, names, 1, 2, 2, 0),
      vwind |-> MakeDataset(2, names, 1, 2, 2, 0),
      u_varname |-> Omitted, v_varname |-> Omitted, skip |-> 1, metadata |-> m] :
        names \in {{"data"}, {"data", "u_varname", "v_varname"}}, m \in MetadataArgs}

Ready == pc = "ready" /\ Len(calls) < MaxCalls

LifeCallSkip ==
    /\ Ready
    /\ \E a \in LifeSkipInputs :
          /\ args' = a
          /\ ret' = Return(PyInt(get_skip_vector(a.lon, a.lat, a.map_region)))
    /\ UNCHANGED <<pc, stdout, exitStatus, heap, calls>>

LifeCallScalar ==
    /\ Ready
    /\ \E a \in LifeScalarInputs :
          /\ args' = a
          /\ Apply(minput_2d(a.data, a.lon, a.lat, a.metadata, heap, Len(calls)))
    /\ UNCHANGED <<pc, stdout, exitStatus>>

LifeCallVector ==
    /\ Ready
    /\ \E a \in LifeVectorInputs :
          /\ args' = a
          /\ Apply(minput_2d_vector(a.udata, a.vdata, a.lon, a.lat, a.skip,
                                    Bind(a.metadata, None), heap, Len(calls)))
    /\ UNCHANGED <<pc, stdout, exitStatus>>

LifeCallXarray ==
    /\ Ready
    /\ \E a \in LifeXarrayInputs :
          /\ args' = a
          /\ Apply(minput_xarray(a.data, Bind(a.varname, Str("data")),
                                 Bind(a.metadata, None), heap, Len(calls)))
    /\ UNCHANGED <<pc, stdout, exitStatus>>

LifeCallXV ==
    /\ Ready
    /\ \E a \in LifeXVInputs :
          /\ args' = a
          /\ Apply(minput_xarray_vector(a.uwind, a.vwind,
                                        Bind(a.u_varname, Str("data")),
                                        Bind(a.v_varname, Str("data")),
                                        a.skip, Bind(a.metadata, Ref(XVDefaultId)),
                                        heap, Len(calls)))
    /\ UNCHANGED <<pc, stdout, exitStatus>>

\* whoever holds a mapping that was handed to the renderer (the caller, the
\* renderer) changes it in place: md['units'] = ...
MutateForwarded ==
    /\ pc = "ready"
    /\ \E k \in 1..Len(calls) :
          /\ calls[k].kwargs.input_metadata # None
          /\ heap[calls[k].kwargs.input_metadata.id].units # "changed"
          /\ heap' = [heap EXCEPT ![calls[k].kwargs.input_metadata.id].units = "changed"]
    /\ UNCHANGED <<pc, stdout, exitStatus, calls, args, ret>>

Next ==
    \/ ImportSucceeds
    \/ ImportFails
    \/ PrintGuidance
    \/ SysExit
    \/ LifeCallSkip
    \/ LifeCallScalar
    \/ LifeCallVector
    \/ LifeCallXarray
    \/ LifeCallXV
    \/ MutateForwarded

Spec == Init /\ [][Next]_vars

\* the call made last forwarded a record, which is the last one logged
LastForwarded(fns) ==
    /\ pc = "ready"
    /\ args.fn \in fns
    /\ calls # <<>>
    /\ ret = Return(Handle(Len(calls)))

LastCall == calls[Len(calls)]

\* the default mapping the claim gives each adapter
ClaimedDefault ==
    IF args.fn = "minput_xarray"
    THEN args.data.vars["data"].attrs
    ELSE [units |-> "m/s", long_name |-> "wind field"]

\* C6: in minput_2d_vector, minput_xarray and minput_xarray_vector the forwarded
\* input_metadata is the default exactly when the caller passes no metadata and
\* the caller's own mapping otherwise; the default is {units: "m/s", long_name:
\* "wind field"} for both vector adapters and the variable's attrs for
\* minput_xarray.
C6_DefaultExactlyWhenNoMetadata ==
    LastForwarded({"minput_2d_vector", "minput_xarray", "minput_xarray_vector"}) =>
        /\ args.metadata = Omitted => LastCall.md_contents = ClaimedDefault
        /\ args.metadata \notin {Omitted, None} =>
              LastCall.kwargs.input_metadata = args.metadata

\* C7: when the import of the plotting library fails, the guidance message is
\* printed, then the process exits with a non-zero status, and no adapter is
\* ever called; when it succeeds nothing is printed and the process does not
\* exit.
C7_ImportGuard ==
    /\ pc \in {"printed", "exited"} => stdout = <<GuidanceMessage>>
    /\ pc \in {"import", "except", "ready"} => stdout = <<>>
    /\ (pc = "exited") <=> (exitStatus # None)
    /\ exitStatus # None => exitStatus.v # 0
    /\ pc # "ready" => (calls = <<>> /\ args = NoArgs /\ ret = NoRet)

\* C7 witness: the import failed, the message is out and the process has exited
\* with status 1
C7_Witness ==
    /\ pc = "exited"
    /\ stdout = <<GuidanceMessage>>
    /\ exitStatus = PyInt(1)
    /\ calls = <<>>

\* C9: a call of minput_2d_vector or minput_xarray_vector that supplies no
\* metadata forwards a default built for that call: never the mapping object an
\* earlier call forwarded, and with the default's contents whatever was done to the
\* mappings earlier calls forwarded.
C9_DefaultFreshPerCall ==
    (LastForwarded({"minput_2d_vector", "minput_xarray_vector"}) /\ args.metadata = Omitted) =>
        /\ \A k \in 1..(Len(calls) - 1) :
              calls[k].kwargs.input_metadata # LastCall.kwargs.input_metadata
        /\ LastCall.md_contents =
              (IF args.fn = "minput_2d_vector" THEN WindDefault ELSE XVDefault)

====
